---- MODULE Spec2Model ----
(***************************************************************************)
(* Model of the sampling / filtering / actuation examples of the rp        *)
(* examples directory:                                                     *)
(*   iot_adc.rs                  averaging Sampler, 64-slot queue,         *)
(*                               threshold consumer                        *)
(*   iot_adc_variable_period.rs  Sampler, two single-slot signals, the     *)
(*                               rate-mapping loop and the Actuator task   *)
(***************************************************************************)
EXTENDS Integers, Sequences, FiniteSets, TLC

(***************************************************************************)
(* Program constants.                                                      *)
(***************************************************************************)
\* iot_adc_variable_period.rs:95  `5000.0 - ...`
PeriodBase == 5000
\* iot_adc_variable_period.rs:95  `... * 5000.0`
PeriodSpan == 5000
\* iot_adc_variable_period.rs:95  `value as f64 / 4095.0`
AdcFullScale == 4095
\* iot_adc_variable_period.rs:96  `min(5000_i64, ...)`
MaxPeriod == 5000
\* iot_adc_variable_period.rs:96  `max(..., 100)`
MinPeriod == 100
AdcPeriodMs == 1000
\* iot_adc.rs:75  `[0u16; 10]`, and the `% 10` and `/ 10` of lines 80 and 84
RingSize == 10
\* iot_adc.rs:61  `value > 2048`
Threshold == 2048
\* iot_adc.rs:36  `Channel<ThreadModeRawMutex, u16, 64>`
ChannelCap == 64
\* iot_adc.rs:84  `sum::<u16>()`: the accumulator is 16 bits wide
U16Bits == 16
\* width of the f64 significand (the type of line 95's arithmetic)
F64Precision == 53
\* number of fraction bits the long division of F64DivInt produces before
\* rounding: enough for 53 significant bits and a guard bit for every
\* dividend >= 1 and divisor < 2^12
DivFractionBits == 66
\* limb width of the multi-precision naturals below
LimbBits == 12
LimbBase == 2 ^ LimbBits

Min(a, b) == IF a < b THEN a ELSE b
Max(a, b) == IF a > b THEN a ELSE b

(***************************************************************************)
(* Natural numbers of any size as sequences of 12-bit limbs, least         *)
(* significant limb first, without leading (most significant) zero limbs;  *)
(* <<>> is 0.  TLC's integers are 32 bits wide, an f64 significand is 53.  *)
(***************************************************************************)
Trim(x) ==
    LET nz == {i \in 1..Len(x) : x[i] # 0}
    IN  IF nz = {} THEN <<>>
        ELSE SubSeq(x, 1, CHOOSE i \in nz : \A j \in nz : j <= i)

Limb(x, j) == IF j >= 1 /\ j <= Len(x) THEN x[j] ELSE 0

\* bit i of x, bit 1 the least significant
Bit(x, i) == (Limb(x, ((i - 1) \div LimbBits) + 1) \div 2 ^ ((i - 1) % LimbBits)) % 2

\* number of significant bits of x
BitLen(x) ==
    IF x = <<>> THEN 0
    ELSE (Len(x) - 1) * LimbBits
         + (CHOOSE w \in 1..LimbBits : 2 ^ (w - 1) <= x[Len(x)] /\ x[Len(x)] < 2 ^ w)

\* x * 2^k
ShiftLeft(x, k) ==
    LET q == k \div LimbBits
        s == k % LimbBits
    IN  Trim([j \in 1..(Len(x) + q + 1) |->
                (Limb(x, j - q) % 2 ^ (LimbBits - s)) * 2 ^ s
                + Limb(x, j - q - 1) \div 2 ^ (LimbBits - s)])

\* x div 2^k
ShiftRight(x, k) ==
    LET q == k \div LimbBits
        s == k % LimbBits
    IN  Trim([j \in 1..Len(x) |->
                Limb(x, j + q) \div 2 ^ s
                + (Limb(x, j + q + 1) % 2 ^ s) * 2 ^ (LimbBits - s)])

\* the limbs of a small n (below 2^31)
NatOf(n) ==
    Trim(<<n % LimbBase, (n \div LimbBase) % LimbBase,
           n \div (LimbBase * LimbBase)>>)

\* the value of an x below 2^31
IntOf(x) == Limb(x, 1) + LimbBase * Limb(x, 2) + LimbBase * LimbBase * Limb(x, 3)

\* x * k + carry for a small k
MulSmall(x, k, carry) ==
    LET c[i \in 0..Len(x)] ==
            IF i = 0 THEN carry ELSE (x[i] * k + c[i - 1]) \div LimbBase
    IN  Trim([i \in 1..(Len(x) + 2) |->
                IF i <= Len(x) THEN (x[i] * k + c[i - 1]) % LimbBase
                ELSE IF i = Len(x) + 1 THEN c[Len(x)] % LimbBase
                ELSE c[Len(x)] \div LimbBase])

\* x + 1
Inc(x) == MulSmall(x, 1, 1)

\* a - b, for a >= b
SubNat(a, b) ==
    LET br[i \in 0..Len(a)] ==
            IF i = 0 THEN 0
            ELSE IF a[i] - Limb(b, i) - br[i - 1] < 0 THEN 1 ELSE 0
    IN  Trim([i \in 1..Len(a) |-> (a[i] - Limb(b, i) - br[i - 1]) % LimbBase])

\* a < b, for trimmed a and b
LessNat(a, b) ==
    IF Len(a) # Len(b) THEN Len(a) < Len(b)
    ELSE LET df == {i \in 1..Len(a) : a[i] # b[i]}
         IN  IF df = {} THEN FALSE
             ELSE LET top == CHOOSE i \in df : \A j \in df : j <= i
                  IN  a[top] < b[top]

\* x divided by a small d, most significant limb first: the quotient q and
\* the remainder r
DivSmall(x, d) ==
    LET rem[i \in 1..(Len(x) + 1)] ==
            IF i = Len(x) + 1 THEN 0 ELSE (LimbBase * rem[i + 1] + x[i]) % d
    IN  [q |-> Trim([i \in 1..Len(x) |-> (LimbBase * rem[i + 1] + x[i]) \div d]),
         r |-> rem[1]]

(***************************************************************************)
(* IEEE-754 binary64 values in the range line 95 works in (no subnormals,  *)
(* no overflow, no NaN): [neg, m, e] is (-1)^neg * m * 2^e with m of at    *)
(* most 53 bits.                                                           *)
(***************************************************************************)
\* round-to-nearest, ties-to-even, of x * 2^e (plus a nonzero fraction below
\* the last bit of x when sticky) to 53 significant bits
F64Round(neg, x, e, sticky) ==
    IF BitLen(x) <= F64Precision THEN [neg |-> neg, m |-> x, e |-> e]
    ELSE LET k     == BitLen(x) - F64Precision
             kept  == ShiftRight(x, k)
             low   == sticky \/ \E i \in 1..(k - 1) : Bit(x, i) = 1
             up    == Bit(x, k) = 1 /\ (low \/ Bit(kept, 1) = 1)
             r     == IF up THEN Inc(kept) ELSE kept
         IN  IF BitLen(r) > F64Precision
             THEN [neg |-> neg, m |-> ShiftRight(r, 1), e |-> e + k + 1]
             ELSE [neg |-> neg, m |-> r, e |-> e + k]

\* `value as f64`: exact for a u64 below 2^53
F64FromInt(n) == [neg |-> FALSE, m |-> NatOf(n), e |-> 0]

\* a / d for a float a that holds a non-negative integer (e = 0) and a
\* small integer divisor d, as in `value as f64 / 4095.0`
F64DivInt(a, d) ==
    IF a.m = <<>> THEN a
    ELSE LET num == ShiftLeft(a.m, DivFractionBits)
             qr  == DivSmall(num, d)
         IN  F64Round(a.neg, qr.q, a.e - DivFractionBits, qr.r # 0)

\* x * k for a small integer k, as in `(...) * 5000.0`
F64MulInt(x, k) == F64Round(x.neg, MulSmall(x.m, k, 0), x.e, FALSE)

\* k - x for a small integer k and x >= 0, as in `5000.0 - (...)`
F64IntSub(k, x) ==
    LET e == Min(x.e, 0)
        A == ShiftLeft(NatOf(k), 0 - e)
        B == ShiftLeft(x.m, x.e - e)
    IN  IF LessNat(A, B)
        THEN F64Round(TRUE, SubNat(B, A), e, FALSE)
        ELSE F64Round(FALSE, SubNat(A, B), e, FALSE)

\* mutant of F64ToI64: rounds to the nearest integer (`.round() as i64`)
F64ToI64_Nearest(x) ==
    LET mag == IF x.e >= 0 THEN IntOf(ShiftLeft(x.m, x.e))
               ELSE IntOf(ShiftRight(x.m, 0 - x.e)) + Bit(x.m, 0 - x.e)
    IN  IF x.neg THEN 0 - mag ELSE mag

\* `x as i64`: truncation toward zero
F64ToI64(x) ==
    LET mag == IF x.e >= 0 THEN IntOf(ShiftLeft(x.m, x.e))
               ELSE IntOf(ShiftRight(x.m, 0 - x.e))
    IN  IF x.neg THEN 0 - mag ELSE mag

(***************************************************************************)
(* The Rate Mapper: lines 95-96 of main in iot_adc_variable_period.rs.     *)
(***************************************************************************)
\* mutant of RawDuration: the inversion `5000.0 - ...` is left out
RawDuration_NotInverted(v) ==
    F64ToI64(F64MulInt(F64DivInt(F64FromInt(v), AdcFullScale), PeriodSpan))

\* let duration = (5000.0 - (value as f64 / 4095.0) * 5000.0) as i64;
RawDuration(v) ==
    F64ToI64(F64IntSub(PeriodBase,
                       F64MulInt(F64DivInt(F64FromInt(v), AdcFullScale),
                                 PeriodSpan)))

\* mutant of ClampDuration: the lower bound `max(..., 100)` is left out
ClampDuration_NoFloor(d) == Min(MaxPeriod, d)

\* mutant of ClampDuration: the two bounds are exchanged
ClampDuration_SwappedBounds(d) == Max(Min(MinPeriod, d), MaxPeriod)

\* let duration: u64 = max(min(5000_i64, duration as i64), 100) as u64;
ClampDuration(d) == Max(Min(MaxPeriod, d), MinPeriod)

MapValueToPeriod(v) == ClampDuration(RawDuration(v))

\* the Rate Mapper over the whole 12-bit range, as an explicit table (@@ makes
\* TLC tabulate the function once instead of mapping anew at each use)
PeriodOf == [v \in 0..AdcFullScale |-> MapValueToPeriod(v)] @@ <<>>

(***************************************************************************)
(* Bounds of the model.                                                    *)
(***************************************************************************)
\* analog reads the variable-period Sampler performs in one behaviour
MaxReads == 4
\* raw readings the analog input presents to the variable-period program
SampleValues == {0, 2048, AdcFullScale}
\* analog reads the averaging Sampler performs in one behaviour
MaxAdcReads == 20
\* the pairs of levels the analog input of the averaging program moves
\* between in one behaviour: the two ends of the range, and the two
\* neighbours of the threshold
AdcRanges == {{0, AdcFullScale}, {Threshold - 1, Threshold + 1}}
\* analog reads the averaging Sampler performs in one behaviour in which the
\* analog input stays at one level: enough to compute a 65th average
MaxSteadyReads == 650
\* the reads allowed in a behaviour whose analog input presents `levels`
ReadLimit(levels) ==
    IF Cardinality(levels) = 1 THEN MaxSteadyReads ELSE MaxAdcReads
\* toggles each toggle_led task of iot_hello.rs performs in one behaviour
MaxHelloToggles == 3
\* iterations hello_debug performs in one behaviour
MaxHelloCount == 2

(***************************************************************************)
(* embassy_sync::signal::Signal: a single slot, <<>> when nothing is       *)
(* pending.  A pending entry carries the value and, as history, the        *)
(* number of the write that stored it.                                     *)
(***************************************************************************)
\* Signal::new()
SignalNew == <<>>
\* Signal::signal(v): store v, replacing whatever is pending
SignalSignal(slot, v, n) == <<[val |-> v, seq |-> n]>>
\* Signal::wait() can complete: a value is pending
SignalPending(slot) == slot # <<>>
\* Signal::wait(): the slot once the waiter has taken the value
SignalTaken(slot) == <<>>

VARIABLES
    \* iot_adc_variable_period.rs
    CHANNEL,          \* static CHANNEL: Signal<_, u16>
    DURATION_SIGNAL,  \* static DURATION_SIGNAL: Signal<_, u64>
    rd_pc,            \* read_adc_value: "read" (awaiting adc.read) or "sleep"
    samples,          \* history: every raw value adc.read has returned
    value,            \* main: `value`, with the write it came from
    main_duration,    \* main: `duration` of line 96
    nMapped,          \* history: values main has taken from CHANNEL
    durWrites,        \* history: writes to DURATION_SIGNAL
    tl_pc,            \* toggle_led: "wait" (on DURATION_SIGNAL) or "sleep"
    led_duration,     \* toggle_led: `duration`, with the write it came from
    led,              \* the output pin: TRUE is high
    nToggles,         \* history: calls of led.toggle()
    halted,           \* a panic has stopped the program
    \* iot_adc.rs
    adcRange,         \* the levels the analog input presents in this run
    measurements,     \* read_adc_value: `measurements`, slot i at index i + 1
    pos,              \* read_adc_value: `pos`
    average,          \* read_adc_value: `average` of line 84
    sm_pc,            \* read_adc_value: "read", "send" or "sleep"
    adc_channel,      \* static CHANNEL: Channel<_, u16, 64>, oldest first
    adc_value,        \* main: `value`
    adc_led,          \* the output pin: TRUE is high
    recent,           \* history: the samples read in the current round of
                      \* the ring, all ten of them once the cursor has wrapped
    nSamples,         \* history: reads that returned a sample
    nSent,            \* history: averages sent
    nReceived,        \* history: averages main has received
    adc_faults,       \* history: reads that returned an error
    adc_halted,       \* a panic has stopped the program
    \* iot_adc_variable_period.rs on the time axis, in milliseconds
    now,              \* the time driver's clock
    rd_wake,          \* read_adc_value: expiry of the timer of line 63
    tl_wake,          \* toggle_led: expiry of the timer of line 51
    lastToggle,       \* history: time of the latest led.toggle()
    gap,              \* history: time between the latest two toggles
    gapPeriod,        \* history: `duration` at the earlier of those two
    \* iot_hello.rs
    LED,              \* static LED: the mutex is locked
    LED_pin,          \* static LED: the Option<Output> inside the mutex
    hm_pc,            \* main: "lock", "store", "spawn" or "done"
    h_pc,             \* toggle_led, per task: "idle", "lock", "toggle", "ticker"
    h_guards,         \* the tasks that hold a MutexGuard of LED
    h_toggles,        \* history, per task: calls of pin_ref.toggle()
    h_count           \* hello_debug: `count`

vpVars == <<CHANNEL, DURATION_SIGNAL, rd_pc, samples, value, main_duration,
            nMapped, durWrites, tl_pc, led_duration, led, nToggles, halted>>

adcVars == <<adcRange, measurements, pos, average, sm_pc, adc_channel,
             adc_value, adc_led, recent, nSamples, nSent, nReceived,
             adc_faults, adc_halted>>

timeVars == <<now, rd_wake, tl_wake, lastToggle, gap, gapPeriod>>

helloVars == <<LED, LED_pin, hm_pc, h_pc, h_guards, h_toggles, h_count>>

\* what a step of the untimed models of the two ADC programs leaves alone
otherVars == <<timeVars, helloVars>>

vars == <<vpVars, adcVars, timeVars, helloVars>>

None == [val |-> -1, seq |-> 0]

\* main, lines 68-80: the pin starts Low, both tasks are spawned
VpInit ==
    /\ CHANNEL = SignalNew
    /\ DURATION_SIGNAL = SignalNew
    /\ rd_pc = "read"
    /\ samples = <<>>
    /\ value = None
    /\ main_duration = -1
    /\ nMapped = 0
    /\ durWrites = 0
    /\ tl_pc = "wait"
    /\ led_duration = None
    /\ led = FALSE
    /\ nToggles = 0
    /\ halted = FALSE

\* mutant of VpAdcRead: a value still pending on CHANNEL is kept and the new
\* one dropped (a try_send on a one-slot queue instead of Signal::signal)
VpAdcRead_KeepPending ==
    /\ ~halted
    /\ rd_pc = "read"
    /\ Len(samples) < MaxReads
    /\ \E v \in SampleValues :
          /\ samples' = Append(samples, v)
          /\ CHANNEL' = IF SignalPending(CHANNEL) THEN CHANNEL
                        ELSE SignalSignal(CHANNEL, v, Len(samples) + 1)
    /\ rd_pc' = "sleep"
    /\ UNCHANGED <<DURATION_SIGNAL, value, main_duration, nMapped, durWrites,
                   tl_pc, led_duration, led, nToggles, halted>>
    /\ UNCHANGED adcVars

\* mutant of VpAdcRead: a reading equal to the previous one is not signalled
VpAdcRead_OnChange ==
    /\ ~halted
    /\ rd_pc = "read"
    /\ Len(samples) < MaxReads
    /\ \E v \in SampleValues :
          /\ samples' = Append(samples, v)
          /\ CHANNEL' = IF samples # <<>> /\ samples[Len(samples)] = v
                        THEN CHANNEL
                        ELSE SignalSignal(CHANNEL, v, Len(samples) + 1)
    /\ rd_pc' = "sleep"
    /\ UNCHANGED <<DURATION_SIGNAL, value, main_duration, nMapped, durWrites,
                   tl_pc, led_duration, led, nToggles, halted>>
    /\ UNCHANGED adcVars

\* read_adc_value, lines 60-63: adc.read returns Ok(v); the value is
\* signalled on CHANNEL and the task goes to sleep for a second
VpAdcRead ==
    /\ ~halted
    /\ rd_pc = "read"
    /\ Len(samples) < MaxReads
    /\ \E v \in SampleValues :
          /\ samples' = Append(samples, v)
          /\ CHANNEL' = SignalSignal(CHANNEL, v, Len(samples) + 1)
    /\ rd_pc' = "sleep"
    /\ UNCHANGED <<DURATION_SIGNAL, value, main_duration, nMapped, durWrites,
                   tl_pc, led_duration, led, nToggles, halted>>
    /\ UNCHANGED adcVars

\* read_adc_value, line 60: adc.read returns Err and unwrap() panics; the
\* panic handler never returns, so no task runs again
VpAdcFault ==
    /\ ~halted
    /\ rd_pc = "read"
    /\ halted' = TRUE
    /\ UNCHANGED <<CHANNEL, DURATION_SIGNAL, rd_pc, samples, value,
                   main_duration, nMapped, durWrites, tl_pc, led_duration,
                   led, nToggles>>
    /\ UNCHANGED adcVars

\* read_adc_value, line 63: the one-second timer expires
VpAdcTimer ==
    /\ ~halted
    /\ rd_pc = "sleep"
    /\ rd_pc' = "read"
    /\ UNCHANGED <<CHANNEL, DURATION_SIGNAL, samples, value, main_duration,
                   nMapped, durWrites, tl_pc, led_duration, led, nToggles,
                   halted>>
    /\ UNCHANGED adcVars

\* mutant of MainMap: the value is read from CHANNEL but left pending
MainMap_Peek ==
    /\ ~halted
    /\ SignalPending(CHANNEL)
    /\ value' = CHANNEL[1]
    /\ main_duration' = PeriodOf[CHANNEL[1].val]
    /\ DURATION_SIGNAL' =
          SignalSignal(DURATION_SIGNAL, PeriodOf[CHANNEL[1].val],
                       durWrites + 1)
    /\ durWrites' = durWrites + 1
    /\ nMapped' = nMapped + 1
    /\ UNCHANGED <<CHANNEL, rd_pc, samples, tl_pc, led_duration, led,
                   nToggles, halted>>
    /\ UNCHANGED adcVars

\* mutant of MainMap: a Period still pending on DURATION_SIGNAL is kept and
\* the new one dropped
MainMap_KeepPending ==
    /\ ~halted
    /\ SignalPending(CHANNEL)
    /\ value' = CHANNEL[1]
    /\ CHANNEL' = SignalTaken(CHANNEL)
    /\ main_duration' = PeriodOf[CHANNEL[1].val]
    /\ DURATION_SIGNAL' =
          IF SignalPending(DURATION_SIGNAL) THEN DURATION_SIGNAL
          ELSE SignalSignal(DURATION_SIGNAL, PeriodOf[CHANNEL[1].val],
                            durWrites + 1)
    /\ durWrites' = durWrites + 1
    /\ nMapped' = nMapped + 1
    /\ UNCHANGED <<rd_pc, samples, tl_pc, led_duration, led, nToggles, halted>>
    /\ UNCHANGED adcVars

\* main, lines 84-99: CHANNEL.wait() returns, the duration is computed and
\* signalled on DURATION_SIGNAL
MainMap ==
    /\ ~halted
    /\ SignalPending(CHANNEL)
    /\ value' = CHANNEL[1]
    /\ CHANNEL' = SignalTaken(CHANNEL)
    /\ main_duration' = PeriodOf[CHANNEL[1].val]
    /\ DURATION_SIGNAL' =
          SignalSignal(DURATION_SIGNAL, PeriodOf[CHANNEL[1].val],
                       durWrites + 1)
    /\ durWrites' = durWrites + 1
    /\ nMapped' = nMapped + 1
    /\ UNCHANGED <<rd_pc, samples, tl_pc, led_duration, led, nToggles, halted>>
    /\ UNCHANGED adcVars

\* mutant of ToggleLed: the timer of line 51 is created but not awaited, so
\* the task is back at the wait at once
ToggleLed_NoSleep ==
    /\ ~halted
    /\ tl_pc = "wait"
    /\ SignalPending(DURATION_SIGNAL)
    /\ led_duration' = DURATION_SIGNAL[1]
    /\ DURATION_SIGNAL' = SignalTaken(DURATION_SIGNAL)
    /\ led' = ~led
    /\ nToggles' = nToggles + 1
    /\ tl_pc' = "wait"
    /\ UNCHANGED <<CHANNEL, rd_pc, samples, value, main_duration, nMapped,
                   durWrites, halted>>
    /\ UNCHANGED adcVars

\* mutant of ToggleLed: the pin is driven high instead of toggled
ToggleLed_SetHigh ==
    /\ ~halted
    /\ tl_pc = "wait"
    /\ SignalPending(DURATION_SIGNAL)
    /\ led_duration' = DURATION_SIGNAL[1]
    /\ DURATION_SIGNAL' = SignalTaken(DURATION_SIGNAL)
    /\ led' = TRUE
    /\ nToggles' = nToggles + 1
    /\ tl_pc' = "sleep"
    /\ UNCHANGED <<CHANNEL, rd_pc, samples, value, main_duration, nMapped,
                   durWrites, halted>>
    /\ UNCHANGED adcVars

\* mutant of ToggleLed: the Period is read from DURATION_SIGNAL but left
\* pending, so the task toggles again on it after its sleep
ToggleLed_Peek ==
    /\ ~halted
    /\ tl_pc = "wait"
    /\ SignalPending(DURATION_SIGNAL)
    /\ led_duration' = DURATION_SIGNAL[1]
    /\ DURATION_SIGNAL' = DURATION_SIGNAL
    /\ led' = ~led
    /\ nToggles' = nToggles + 1
    /\ tl_pc' = "sleep"
    /\ UNCHANGED <<CHANNEL, rd_pc, samples, value, main_duration, nMapped,
                   durWrites, halted>>
    /\ UNCHANGED adcVars

\* toggle_led, lines 43-51: DURATION_SIGNAL.wait() returns, the pin is
\* toggled and the task goes to sleep for the received duration
ToggleLed ==
    /\ ~halted
    /\ tl_pc = "wait"
    /\ SignalPending(DURATION_SIGNAL)
    /\ led_duration' = DURATION_SIGNAL[1]
    /\ DURATION_SIGNAL' = SignalTaken(DURATION_SIGNAL)
    /\ led' = ~led
    /\ nToggles' = nToggles + 1
    /\ tl_pc' = "sleep"
    /\ UNCHANGED <<CHANNEL, rd_pc, samples, value, main_duration, nMapped,
                   durWrites, halted>>
    /\ UNCHANGED adcVars

\* toggle_led, line 51: the timer of `duration` milliseconds expires
LedTimer ==
    /\ ~halted
    /\ tl_pc = "sleep"
    /\ tl_pc' = "wait"
    /\ UNCHANGED <<CHANNEL, DURATION_SIGNAL, rd_pc, samples, value,
                   main_duration, nMapped, durWrites, led_duration, led,
                   nToggles, halted>>
    /\ UNCHANGED adcVars

VpNext ==
    \/ VpAdcRead /\ UNCHANGED otherVars
    \/ VpAdcFault /\ UNCHANGED otherVars
    \/ VpAdcTimer /\ UNCHANGED otherVars
    \/ MainMap /\ UNCHANGED otherVars
    \/ ToggleLed /\ UNCHANGED otherVars
    \/ LedTimer /\ UNCHANGED otherVars

(***************************************************************************)
(* iot_adc.rs: the averaging Sampler, the 64-slot queue and the threshold  *)
(* consumer.                                                               *)
(***************************************************************************)
\* embassy_sync::channel::Channel: send() completes once there is room
ChannelHasRoom(q) == Len(q) < ChannelCap
\* Channel: receive() completes once a value is queued
ChannelNonEmpty(q) == Len(q) > 0

RECURSIVE SumSeq(_)
SumSeq(q) == IF q = <<>> THEN 0 ELSE q[1] + SumSeq(Tail(q))

\* measurements.iter().sum::<u16>(), line 84
SumU16(m) == SumSeq(m) % (2 ^ U16Bits)

\* mutant of NextPos: the cursor wraps one slot early
NextPos_WrapsEarly(p) == (p + 1) % (RingSize - 1)

\* pos = (pos + 1) % 10, line 80
NextPos(p) == (p + 1) % RingSize

\* let average = measurements.iter().sum::<u16>() / 10, line 84
Average(m) == SumU16(m) \div RingSize

\* mutant of LedLevel: the comparison is `>=`
LedLevel_AtLeast(v) == v >= Threshold

\* if value > 2048 { led.set_high() } else { led.set_low() }, lines 61-65
LedLevel(v) == v > Threshold

\* main, lines 40-52, and read_adc_value, lines 75-76: the pin starts Low,
\* the ring is zeroed and the cursor is 0
AdcInit ==
    /\ adcRange \in AdcRanges
    /\ measurements = [i \in 1..RingSize |-> 0]
    /\ pos = 0
    /\ average = -1
    /\ sm_pc = "read"
    /\ adc_channel = <<>>
    /\ adc_value = -1
    /\ adc_led = FALSE
    /\ recent = <<>>
    /\ nSamples = 0
    /\ nSent = 0
    /\ nReceived = 0
    /\ adc_faults = 0
    /\ adc_halted = FALSE

\* the same start, with the analog input held at full scale
AdcSteadyInit ==
    /\ adcRange = {AdcFullScale}
    /\ measurements = [i \in 1..RingSize |-> 0]
    /\ pos = 0
    /\ average = -1
    /\ sm_pc = "read"
    /\ adc_channel = <<>>
    /\ adc_value = -1
    /\ adc_led = FALSE
    /\ recent = <<>>
    /\ nSamples = 0
    /\ nSent = 0
    /\ nReceived = 0
    /\ adc_faults = 0
    /\ adc_halted = FALSE

\* read_adc_value, lines 79-90: adc.read returns Ok(s), the sample is stored
\* and the cursor advanced; when the cursor wraps the average is computed
\* and sent: with room in the queue the send completes in the same poll and
\* the task goes to sleep, with the queue full the task is suspended in the
\* send; when the cursor does not wrap the task goes to sleep
AdcRead ==
    /\ ~adc_halted
    /\ sm_pc = "read"
    /\ nSamples < ReadLimit(adcRange)
    /\ \E s \in adcRange :
          /\ measurements' = [measurements EXCEPT ![pos + 1] = s]
          /\ recent' = IF Len(recent) = RingSize THEN <<s>>
                       ELSE Append(recent, s)
    /\ pos' = NextPos(pos)
    /\ nSamples' = nSamples + 1
    /\ IF pos' = 0
       THEN /\ average' = Average(measurements')
            /\ IF ChannelHasRoom(adc_channel)
               THEN /\ adc_channel' = Append(adc_channel, average')
                    /\ nSent' = nSent + 1
                    /\ sm_pc' = "sleep"
               ELSE /\ UNCHANGED <<adc_channel, nSent>>
                    /\ sm_pc' = "send"
       ELSE /\ average' = average
            /\ sm_pc' = "sleep"
            /\ UNCHANGED <<adc_channel, nSent>>
    /\ UNCHANGED <<adcRange, adc_value, adc_led, nReceived, adc_faults,
                   adc_halted>>
    /\ UNCHANGED vpVars

\* read_adc_value, line 79: adc.read returns Err and unwrap() panics; the
\* panic handler never returns, so no task runs again
AdcFault ==
    /\ ~adc_halted
    /\ sm_pc = "read"
    /\ adc_faults' = adc_faults + 1
    /\ adc_halted' = TRUE
    /\ UNCHANGED <<adcRange, measurements, pos, average, sm_pc, adc_channel,
                   adc_value, adc_led, recent, nSamples, nSent, nReceived>>
    /\ UNCHANGED vpVars

\* read_adc_value, line 87: the queue has room again and the send in which
\* the task was suspended completes
SamplerSend ==
    /\ ~adc_halted
    /\ sm_pc = "send"
    /\ ChannelHasRoom(adc_channel)
    /\ adc_channel' = Append(adc_channel, average)
    /\ nSent' = nSent + 1
    /\ sm_pc' = "sleep"
    /\ UNCHANGED <<adcRange, measurements, pos, average, adc_value, adc_led,
                   recent, nSamples, nReceived, adc_faults, adc_halted>>
    /\ UNCHANGED vpVars

\* read_adc_value, line 90: the 100 ms timer expires
AdcTimer ==
    /\ ~adc_halted
    /\ sm_pc = "sleep"
    /\ sm_pc' = "read"
    /\ UNCHANGED <<adcRange, measurements, pos, average, adc_channel,
                   adc_value, adc_led, recent, nSamples, nSent, nReceived,
                   adc_faults, adc_halted>>
    /\ UNCHANGED vpVars

\* main, lines 55-65: receive() returns a value and the pin is set from it
MainReceive ==
    /\ ~adc_halted
    /\ ChannelNonEmpty(adc_channel)
    /\ adc_value' = Head(adc_channel)
    /\ adc_channel' = Tail(adc_channel)
    /\ adc_led' = LedLevel(Head(adc_channel))
    /\ nReceived' = nReceived + 1
    /\ UNCHANGED <<adcRange, measurements, pos, average, sm_pc, recent,
                   nSamples, nSent, adc_faults, adc_halted>>
    /\ UNCHANGED vpVars

AdcNext ==
    \/ AdcRead /\ UNCHANGED otherVars
    \/ AdcFault /\ UNCHANGED otherVars
    \/ SamplerSend /\ UNCHANGED otherVars
    \/ AdcTimer /\ UNCHANGED otherVars
    \/ MainReceive /\ UNCHANGED otherVars

\* iot_adc.rs not running: its state as constructed, with no analog input
AdcIdle ==
    /\ adcRange = {}
    /\ measurements = [i \in 1..RingSize |-> 0]
    /\ pos = 0
    /\ average = -1
    /\ sm_pc = "read"
    /\ adc_channel = <<>>
    /\ adc_value = -1
    /\ adc_led = FALSE
    /\ recent = <<>>
    /\ nSamples = 0
    /\ nSent = 0
    /\ nReceived = 0
    /\ adc_faults = 0
    /\ adc_halted = FALSE

(***************************************************************************)
(* embassy_sync::mutex::Mutex: lock() completes only while the mutex is    *)
(* free and yields a guard; dropping the guard frees the mutex.            *)
(***************************************************************************)
\* Mutex::new(..)
MutexNew == FALSE
\* Mutex::lock() can complete
MutexCanLock(m) == ~m
\* the mutex once lock() has completed
MutexLock(m) == TRUE
\* the mutex once the guard is dropped
MutexUnlock(m) == FALSE

(***************************************************************************)
(* iot_hello.rs: main stores the pin in the LED mutex and spawns           *)
(* hello_debug and two toggle_led tasks.                                   *)
(***************************************************************************)
\* the two toggle_led tasks spawned at lines 41 and 42
HelloTasks == {"toggle_a", "toggle_b"}

\* Output::toggle()
PinToggle(level) == IF level = "High" THEN "Low" ELSE "High"

\* lines 25 and 28-31: LED holds None, main is about to lock it
HelloInit ==
    /\ LED = MutexNew
    /\ LED_pin = "None"
    /\ hm_pc = "lock"
    /\ h_pc = [t \in HelloTasks |-> "idle"]
    /\ h_guards = {}
    /\ h_toggles = [t \in HelloTasks |-> 0]
    /\ h_count = 0

\* main, line 35: LED.lock().await completes
HelloMainLock ==
    /\ hm_pc = "lock"
    /\ MutexCanLock(LED)
    /\ LED' = MutexLock(LED)
    /\ h_guards' = h_guards \cup {"main"}
    /\ hm_pc' = "store"
    /\ UNCHANGED <<LED_pin, h_pc, h_toggles, h_count>>

\* main, lines 31 and 35-36: Some(led), created High, is stored and the
\* guard is dropped
HelloMainStore ==
    /\ hm_pc = "store"
    /\ LED_pin' = "High"
    /\ LED' = MutexUnlock(LED)
    /\ h_guards' = h_guards \ {"main"}
    /\ hm_pc' = "spawn"
    /\ UNCHANGED <<h_pc, h_toggles, h_count>>

\* main, lines 40-42: the three tasks are spawned and main returns
HelloMainSpawn ==
    /\ hm_pc = "spawn"
    /\ h_pc' = [t \in HelloTasks |-> "lock"]
    /\ hm_pc' = "done"
    /\ UNCHANGED <<LED, LED_pin, h_guards, h_toggles, h_count>>

\* hello_debug, lines 48-52: the timer expires and count is incremented
HelloDebug ==
    /\ hm_pc = "done"
    /\ h_count < MaxHelloCount
    /\ h_count' = h_count + 1
    /\ UNCHANGED <<LED, LED_pin, hm_pc, h_pc, h_guards, h_toggles>>

\* toggle_led, line 60: led.lock().await completes
HelloLock(t) ==
    /\ h_pc[t] = "lock"
    /\ MutexCanLock(LED)
    /\ LED' = MutexLock(LED)
    /\ h_guards' = h_guards \cup {t}
    /\ h_pc' = [h_pc EXCEPT ![t] = "toggle"]
    /\ UNCHANGED <<LED_pin, hm_pc, h_toggles, h_count>>

\* mutant of HelloToggle: the guard lives until the end of the loop body, so
\* the task waits on its ticker with the mutex locked
HelloToggle_KeepsGuard(t) ==
    /\ h_pc[t] = "toggle"
    /\ IF LED_pin # "None"
          THEN /\ LED_pin' = PinToggle(LED_pin)
               /\ h_toggles' = [h_toggles EXCEPT ![t] = @ + 1]
          ELSE UNCHANGED <<LED_pin, h_toggles>>
    /\ h_pc' = [h_pc EXCEPT ![t] = "ticker"]
    /\ UNCHANGED <<LED, h_guards, hm_pc, h_count>>

\* toggle_led, lines 61-64: the pin, if there is one, is toggled and the
\* guard is dropped at the end of the inner block; then ticker.next()
HelloToggle(t) ==
    /\ h_pc[t] = "toggle"
    /\ IF LED_pin # "None"
          THEN /\ LED_pin' = PinToggle(LED_pin)
               /\ h_toggles' = [h_toggles EXCEPT ![t] = @ + 1]
          ELSE UNCHANGED <<LED_pin, h_toggles>>
    /\ LED' = MutexUnlock(LED)
    /\ h_guards' = h_guards \ {t}
    /\ h_pc' = [h_pc EXCEPT ![t] = "ticker"]
    /\ UNCHANGED <<hm_pc, h_count>>

\* toggle_led, line 65: ticker.next().await completes
HelloTicker(t) ==
    /\ h_pc[t] = "ticker"
    /\ h_toggles[t] < MaxHelloToggles
    /\ h_pc' = [h_pc EXCEPT ![t] = "lock"]
    /\ UNCHANGED <<LED, LED_pin, hm_pc, h_guards, h_toggles, h_count>>

HelloNext ==
    \/ HelloMainLock /\ UNCHANGED <<vpVars, adcVars, timeVars>>
    \/ HelloMainStore /\ UNCHANGED <<vpVars, adcVars, timeVars>>
    \/ HelloMainSpawn /\ UNCHANGED <<vpVars, adcVars, timeVars>>
    \/ HelloDebug /\ UNCHANGED <<vpVars, adcVars, timeVars>>
    \/ \E t \in HelloTasks :
          HelloLock(t) /\ UNCHANGED <<vpVars, adcVars, timeVars>>
    \/ \E t \in HelloTasks :
          HelloToggle(t) /\ UNCHANGED <<vpVars, adcVars, timeVars>>
    \/ \E t \in HelloTasks :
          HelloTicker(t) /\ UNCHANGED <<vpVars, adcVars, timeVars>>

(***************************************************************************)
(* iot_adc_variable_period.rs on the time axis.  Time is counted in        *)
(* milliseconds.  A task that can run does so before the clock moves: the  *)
(* executor polls every woken task before it waits for the next alarm.     *)
(* adc.read takes microseconds and is counted as taking no time.           *)
(***************************************************************************)
\* before the executor starts: the clock at zero, no timer armed, no toggle
TimeInit ==
    /\ now = 0
    /\ rd_wake = 0
    /\ tl_wake = 0
    /\ lastToggle = -1
    /\ gap = -1
    /\ gapPeriod = -1

\* read_adc_value, lines 60-63: the read, then Timer::after(from_secs(1))
TimedAdcRead ==
    /\ VpAdcRead
    /\ rd_wake' = now + AdcPeriodMs
    /\ UNCHANGED <<now, tl_wake, lastToggle, gap, gapPeriod>>
    /\ UNCHANGED helloVars

\* read_adc_value, line 60: the read fails
TimedAdcFault == VpAdcFault /\ UNCHANGED otherVars

\* read_adc_value, line 63: the timer has expired
TimedAdcTimer ==
    /\ VpAdcTimer
    /\ now >= rd_wake
    /\ UNCHANGED otherVars

\* main, lines 84-99
TimedMainMap == MainMap /\ UNCHANGED otherVars

\* toggle_led, lines 43-51: the wait returns `duration`, the pin is toggled
\* and Timer::after(from_millis(duration)) is armed
TimedToggleLed ==
    /\ ToggleLed
    /\ tl_wake' = now + led_duration'.val
    /\ lastToggle' = now
    /\ gap' = IF lastToggle < 0 THEN -1 ELSE now - lastToggle
    /\ gapPeriod' = led_duration.val
    /\ UNCHANGED <<now, rd_wake>>
    /\ UNCHANGED helloVars

\* toggle_led, line 51: the timer has expired
TimedLedTimer ==
    /\ LedTimer
    /\ now >= tl_wake
    /\ UNCHANGED otherVars

\* some task of the program has been woken and not yet polled
Runnable ==
    \/ rd_pc = "read" /\ Len(samples) < MaxReads
    \/ rd_pc = "sleep" /\ now >= rd_wake
    \/ SignalPending(CHANNEL)
    \/ tl_pc = "wait" /\ SignalPending(DURATION_SIGNAL)
    \/ tl_pc = "sleep" /\ now >= tl_wake

\* the expiry times of the timers that are armed
Alarms ==
    (IF rd_pc = "sleep" THEN {rd_wake} ELSE {})
        \cup (IF tl_pc = "sleep" THEN {tl_wake} ELSE {})

\* the executor has nothing to poll: the clock moves to the next alarm
TimePasses ==
    /\ ~halted
    /\ ~Runnable
    /\ Alarms # {}
    /\ now' = CHOOSE a \in Alarms : \A b \in Alarms : a <= b
    /\ UNCHANGED <<rd_wake, tl_wake, lastToggle, gap, gapPeriod>>
    /\ UNCHANGED <<vpVars, adcVars, helloVars>>

TimedNext ==
    \/ TimedAdcRead
    \/ TimedAdcFault
    \/ TimedAdcTimer
    \/ TimedMainMap
    \/ TimedToggleLed
    \/ TimedLedTimer
    \/ TimePasses

\* the variable-period program
Init == VpInit /\ AdcIdle /\ TimeInit /\ HelloInit
Next == VpNext
Spec == Init /\ [][Next]_vars

\* the averaging program
InitAdc ==
    /\ AdcInit \/ AdcSteadyInit
    /\ VpInit
    /\ TimeInit
    /\ HelloInit
SpecAdc == InitAdc /\ [][AdcNext]_vars

\* the averaging program with a steady input, long enough to fill the queue
InitAdcSteady == AdcSteadyInit /\ VpInit /\ TimeInit /\ HelloInit
SpecAdcSteady == InitAdcSteady /\ [][AdcNext]_vars

\* iot_adc_variable_period.rs not running: its state as constructed, with
\* no task spawned
VpIdle ==
    /\ CHANNEL = SignalNew
    /\ DURATION_SIGNAL = SignalNew
    /\ rd_pc = "idle"
    /\ samples = <<>>
    /\ value = None
    /\ main_duration = -1
    /\ nMapped = 0
    /\ durWrites = 0
    /\ tl_pc = "idle"
    /\ led_duration = None
    /\ led = FALSE
    /\ nToggles = 0
    /\ halted = FALSE

\* either ADC program, with no hardware fault and under a fair executor:
\* every woken task is eventually polled, every armed timer eventually
\* expires and every analog read eventually completes
LiveInit ==
    /\ \/ VpInit /\ AdcIdle
       \/ VpIdle /\ AdcSteadyInit
    /\ TimeInit
    /\ HelloInit

LiveNext ==
    \/ VpAdcRead /\ UNCHANGED otherVars
    \/ VpAdcTimer /\ UNCHANGED otherVars
    \/ MainMap /\ UNCHANGED otherVars
    \/ ToggleLed /\ UNCHANGED otherVars
    \/ LedTimer /\ UNCHANGED otherVars
    \/ AdcRead /\ UNCHANGED otherVars
    \/ SamplerSend /\ UNCHANGED otherVars
    \/ AdcTimer /\ UNCHANGED otherVars
    \/ MainReceive /\ UNCHANGED otherVars

LiveFairness ==
    /\ WF_vars(VpAdcRead /\ UNCHANGED otherVars)
    /\ WF_vars(VpAdcTimer /\ UNCHANGED otherVars)
    /\ WF_vars(MainMap /\ UNCHANGED otherVars)
    /\ WF_vars(ToggleLed /\ UNCHANGED otherVars)
    /\ WF_vars(LedTimer /\ UNCHANGED otherVars)
    /\ WF_vars(AdcRead /\ UNCHANGED otherVars)
    /\ WF_vars(SamplerSend /\ UNCHANGED otherVars)
    /\ WF_vars(AdcTimer /\ UNCHANGED otherVars)
    /\ WF_vars(MainReceive /\ UNCHANGED otherVars)

SpecLive == LiveInit /\ [][LiveNext]_vars /\ LiveFairness

\* the variable-period program with its timers
SpecTimed == Init /\ [][TimedNext]_vars

\* iot_hello.rs
InitHello == HelloInit /\ VpInit /\ AdcIdle /\ TimeInit
SpecHello == InitHello /\ [][HelloNext]_vars

(***************************************************************************)
(* The rate-mapping loop and the Actuator task on every 12-bit reading:    *)
(* the Sampler has read and signalled one value v and sleeps.              *)
(***************************************************************************)
MapInit ==
    /\ \E v \in 0..AdcFullScale :
          /\ samples = <<v>>
          /\ CHANNEL = SignalSignal(SignalNew, v, 1)
    /\ DURATION_SIGNAL = SignalNew
    /\ rd_pc = "sleep"
    /\ value = None
    /\ main_duration = -1
    /\ nMapped = 0
    /\ durWrites = 0
    /\ tl_pc = "wait"
    /\ led_duration = None
    /\ led = FALSE
    /\ nToggles = 0
    /\ halted = FALSE
    /\ AdcIdle
    /\ TimeInit
    /\ HelloInit

MapNext ==
    \/ MainMap /\ UNCHANGED otherVars
    \/ ToggleLed /\ UNCHANGED otherVars
    \/ LedTimer /\ UNCHANGED otherVars

SpecMap == MapInit /\ [][MapNext]_vars

(***************************************************************************)
(* Claims about the Rate Mapper, checked under SpecMap.                    *)
(***************************************************************************)
CeilDiv(a, b) == (a + b - 1) \div b

\* C2: every Period written to DURATION_SIGNAL, and every duration the
\* Actuator task sleeps for, is within [100, 5000] ms, for every sensed value
\* in [0, 4095]; the mapping yields a period for each of them.
C2_PeriodWithinBounds ==
    /\ nMapped > 0 => main_duration \in 100..5000
    /\ SignalPending(DURATION_SIGNAL) => DURATION_SIGNAL[1].val \in 100..5000
    /\ nToggles > 0 => led_duration.val \in 100..5000

\* the Actuator sleeps for the period of the largest reading, 4095
C2_Witness ==
    /\ tl_pc = "sleep"
    /\ samples = <<4095>>
    /\ led_duration.val = 100

\* C3: the mapping is monotonic non-increasing: for all a <= b in [0, 4095]
\* the period computed for b is at most the period computed for a.
C3_Monotonic ==
    SignalPending(DURATION_SIGNAL) =>
        \A a \in 0..value.val : PeriodOf[a] >= DURATION_SIGNAL[1].val

\* a period strictly below the period of a smaller reading has been written
C3_Witness ==
    /\ SignalPending(DURATION_SIGNAL)
    /\ value.val = 2048
    /\ PeriodOf[2047] > DURATION_SIGNAL[1].val

\* C4 as stated: the period is MAX_PERIOD - (v / v_max) * (MAX_PERIOD -
\* MIN_PERIOD), truncated to whole milliseconds and clamped to [100, 5000].
C4_PeriodIsReferenceLaw ==
    nMapped > 0 =>
        main_duration =
            Max(Min(5000, 5000 - CeilDiv(value.val * (5000 - 100), 4095)), 100)

\* C4 as amended: the period is MAX_PERIOD - (v / v_max) * MAX_PERIOD, that
\* is 5000 - v * 5000 / 4095, truncated to whole milliseconds and clamped to
\* [100, 5000].
C4_PeriodIsCodeLaw ==
    nMapped > 0 =>
        main_duration =
            Max(Min(5000, 5000 - CeilDiv(value.val * 5000, 4095)), 100)

\* the mid-range reading 2048 has been mapped to 2499 ms
C4_Witness ==
    /\ nMapped > 0
    /\ value.val = 2048
    /\ main_duration = 2499

(***************************************************************************)
(* Claims about the variable-period program, checked under Spec.           *)
(***************************************************************************)
AllSamples(x) == \A i \in 1..Len(samples) : samples[i] = x

\* C5: when every raw sample is 0 the period delivered to the Actuator task
\* is exactly 5000 ms, and when every raw sample is 4095 it is exactly 100 ms.
C5_EndToEnd ==
    nToggles > 0 =>
        /\ AllSamples(0) => led_duration.val = 5000
        /\ AllSamples(4095) => led_duration.val = 100

\* several samples, all 4095, and the Actuator has received 100 ms
C5_Witness ==
    /\ nToggles > 0
    /\ Len(samples) >= 2
    /\ AllSamples(4095)
    /\ led_duration.val = 100

\* C6 as stated: the value the Rate Mapper turns into a Period is the mean
\* of 10 consecutive raw samples of the Sampler.
C6_MappedValueIsMeanOfK ==
    nMapped > 0 =>
        \E i \in 1..(Len(samples) - 9) :
            value.val = SumSeq(SubSeq(samples, i, i + 9)) \div 10

\* C7: latest value wins on CHANNEL and DURATION_SIGNAL: a slot holds at most
\* one pending value, and a read returns the most recent write, so a value
\* overwritten before any read is returned by no read.
C7_LatestValueWins ==
    [][ /\ Len(CHANNEL') <= 1
        /\ Len(DURATION_SIGNAL') <= 1
        /\ nMapped' # nMapped =>
              /\ value'.seq = Len(samples)
              /\ value'.val = samples[Len(samples)]
        /\ nToggles' # nToggles =>
              /\ led_duration'.seq = durWrites
              /\ led_duration'.val = main_duration ]_vars

\* two different values were written before the first read, which returned
\* the second
C7_Witness ==
    /\ nMapped = 1
    /\ value.seq = 2
    /\ samples[1] # samples[2]
    /\ value.val = samples[2]

\* C8: a read consumes the pending value: a read completes only when a value
\* is pending, and two reads never return the value of the same write.
C8_ReadConsumes ==
    [][ /\ nMapped' # nMapped =>
              /\ SignalPending(CHANNEL)
              /\ value' = CHANNEL[1]
              /\ value'.seq > value.seq
        /\ nToggles' # nToggles =>
              /\ SignalPending(DURATION_SIGNAL)
              /\ led_duration' = DURATION_SIGNAL[1]
              /\ led_duration'.seq > led_duration.seq ]_vars

\* the same value was written twice and returned by two reads, and the slot
\* is empty again
C8_Witness ==
    /\ nMapped = 2
    /\ Len(samples) = 2
    /\ samples[1] = samples[2]
    /\ value.seq = 2
    /\ CHANNEL = <<>>

(***************************************************************************)
(* Claims about the averaging program, checked under SpecAdc.              *)
(***************************************************************************)
\* C1: the value published to the queue is floor(sum / 10) of exactly the
\* 10 samples read since the previous publish (or since start), computed in
\* 16 bits, and lies within [0, 4095]; zero-initialised ring slots never
\* enter a published average.
C1_AverageOfLastTen ==
    /\ [](Len(recent) = 10 =>
            /\ average = SumSeq(recent) \div 10
            /\ average \in 0..4095)
    /\ [][nSent' # nSent =>
            /\ Len(recent') = 10
            /\ average' = SumSeq(recent') \div 10
            /\ average' \in 0..4095
            /\ adc_channel' = Append(adc_channel, average')]_vars

\* the second average has been published, of five samples 4095 and five 0
C1_Witness ==
    /\ nSent = 2
    /\ nSamples = 20
    /\ Len(recent) = 10
    /\ average = 2047
    /\ Len(adc_channel) > 0
    /\ adc_channel[Len(adc_channel)] = 2047

\* C9: after the consumer has processed a received value v the output is on
\* if and only if v > 2048: 2049 gives on, 2047 and 2048 give off.
C9_ThresholdOutput ==
    nReceived > 0 =>
        /\ adc_led <=> adc_value > 2048
        /\ adc_value = 2049 => adc_led
        /\ adc_value \in {2047, 2048} => ~adc_led

\* the consumer has processed two averages, the second exactly 2048, and the
\* output is off
C9_Witness ==
    /\ nReceived = 2
    /\ adc_value = 2048
    /\ ~adc_led

\* C10 as stated: a read that returns a HardwareFault does not terminate the
\* Sampler task, which keeps sampling and publishing.
C10_SamplerSurvivesFault ==
    adc_faults > 0 => ~adc_halted

(***************************************************************************)
(* Claims about faults of the variable-period Sampler, checked under Spec. *)
(***************************************************************************)
\* C11: a failed analog read in the Sampler stops neither the Actuator task
\* nor the process: the step in which the read fails leaves the program
\* running, so the Actuator and the rate-mapping loop can still take steps
C11_FaultLeavesTasksRunning == [][VpAdcFault => ~halted']_vars

(***************************************************************************)
(* Claims about the full queue of the averaging program, checked under     *)
(* SpecAdcSteady.                                                          *)
(***************************************************************************)
\* C12: the Sampler is never blocked by a full queue: whenever it has an
\* average to send, the send can complete without the consumer receiving
\* first
C12_SendNeverBlocks == sm_pc = "send" => ENABLED SamplerSend

(***************************************************************************)
(* Claims about the timing of the Actuator task, checked under SpecTimed.  *)
(***************************************************************************)
\* C13: the time between two consecutive toggles equals the Period the
\* Actuator task received before the first of them
C13_GapIsPeriod == gap >= 0 => gap = gapPeriod

(***************************************************************************)
(* Claims about progress, checked under SpecLive.                          *)
(***************************************************************************)
\* the averaging Sampler is still allowed the reads that complete its ring
AverageToCome == nSamples - pos + RingSize <= ReadLimit(adcRange)

\* C14: with no hardware fault and a fair executor every channel wait
\* returns: as long as the Sampler has a read left (an average left, in the
\* averaging program) a value arrives on the empty CHANNEL, a Period on
\* the empty DURATION_SIGNAL and an average in the empty queue, and every
\* value that has arrived is taken by the task that waits for it
C14_WaitsReturn ==
    /\ (rd_pc # "idle" /\ ~SignalPending(CHANNEL) /\ Len(samples) < MaxReads)
          ~> SignalPending(CHANNEL)
    /\ SignalPending(CHANNEL) ~> ~SignalPending(CHANNEL)
    /\ (tl_pc # "idle" /\ ~SignalPending(DURATION_SIGNAL)
           /\ Len(samples) < MaxReads)
          ~> SignalPending(DURATION_SIGNAL)
    /\ SignalPending(DURATION_SIGNAL) ~> ~SignalPending(DURATION_SIGNAL)
    /\ (adcRange # {} /\ adc_channel = <<>> /\ AverageToCome)
          ~> (adc_channel # <<>>)
    /\ (adc_channel # <<>>) ~> (adc_channel = <<>>)

\* the Sampler has used up its reads and every value has been taken: main
\* has mapped the last reading and the Actuator has toggled on its Period
C14_Witness ==
    /\ Len(samples) = MaxReads
    /\ nMapped = MaxReads
    /\ nToggles = MaxReads
    /\ value.seq = MaxReads
    /\ led_duration.seq = MaxReads

\* C15: the Actuator task repeats wait, toggle, sleep: a toggle happens
\* only at the wait, in the step that takes one Period from DURATION_SIGNAL,
\* and starts a sleep of exactly that Period; a Period is taken only in a
\* toggle step; the task leaves the sleep at its expiry and not before, so
\* two toggles are never closer than the Period taken at the first
C15_ActuatorCycle ==
    /\ [][nToggles' # nToggles =>
             /\ nToggles' = nToggles + 1
             /\ tl_pc = "wait" /\ tl_pc' = "sleep"
             /\ SignalPending(DURATION_SIGNAL)
             /\ led_duration' = DURATION_SIGNAL[1]
             /\ ~SignalPending(DURATION_SIGNAL')
             /\ tl_wake' = now + led_duration'.val]_vars
    /\ [][led_duration' # led_duration => nToggles' = nToggles + 1]_vars
    /\ [][tl_pc' # tl_pc =>
             \/ nToggles' = nToggles + 1
             \/ tl_pc = "sleep" /\ tl_pc' = "wait" /\ now = tl_wake]_vars
    /\ [](tl_pc = "sleep" =>
             now <= tl_wake /\ tl_wake = lastToggle + led_duration.val)
    /\ [](gap >= 0 => gap >= gapPeriod)

\* the second toggle follows the first by exactly the Period taken at the
\* first, and the task is in the sleep that follows it
C15_Witness ==
    /\ nToggles = 2
    /\ gap = gapPeriod
    /\ tl_pc = "sleep"
    /\ now < tl_wake

\* C16: the Actuator task acts on the most recently delivered Period only:
\* the Period it takes at the wait is the last one main has signalled, it
\* is the one the following sleep lasts, and the Periods signalled before it
\* during the previous sleep are skipped for good, since every later take
\* is of a later write
C16_ActsOnLatestPeriod ==
    [][nToggles' # nToggles =>
          /\ led_duration'.seq = durWrites
          /\ led_duration'.val = main_duration
          /\ led_duration'.seq > led_duration.seq
          /\ tl_wake' - now = main_duration]_vars

\* three Periods were signalled, the second and third while the Actuator
\* slept on the first; its second toggle took the third
C16_Witness ==
    /\ nToggles = 2
    /\ durWrites = 3
    /\ led_duration.seq = 3
    /\ gap = gapPeriod
    /\ tl_wake = lastToggle + main_duration

C18_OutputOnlyToggled ==
    /\ [](led <=> nToggles % 2 = 1)
    /\ [][led' # led =>
             /\ nToggles' = nToggles + 1
             /\ tl_pc = "wait" /\ tl_pc' = "sleep"]_vars
    /\ [][nToggles' # nToggles => led' = ~led]_vars
    /\ [][(samples' # samples \/ rd_pc' # rd_pc \/ nMapped' # nMapped) =>
             led' = led /\ nToggles' = nToggles]_vars

\* the output is off again after a second toggle, with Sampler and
\* rate-mapping loop having run in between
C18_Witness ==
    /\ nToggles = 2
    /\ ~led
    /\ nMapped = 3
    /\ Len(samples) = 3

(***************************************************************************)
(* Claims about the LED mutex of iot_hello.rs, checked under SpecHello.    *)
(***************************************************************************)
\* C19: the output of iot_hello.rs is accessed only under the LED mutex: at
\* most one task holds a guard at any time and the mutex is locked exactly
\* then; a toggle task holds its guard only between the completed lock and
\* the end of the toggle block, never while it waits on its ticker or for
\* the lock; and the pin changes only in a step of the task that holds the
\* guard
C19_LedUnderMutex ==
    /\ [](Cardinality(h_guards) <= 1)
    /\ [](LED <=> h_guards # {})
    /\ [](\A t \in HelloTasks : t \in h_guards <=> h_pc[t] = "toggle")
    /\ []("main" \in h_guards <=> hm_pc = "store")
    /\ [][LED_pin' # LED_pin =>
             \/ "main" \in h_guards /\ hm_pc = "store"
             \/ \E t \in h_guards \cap HelloTasks :
                   /\ h_pc[t] = "toggle"
                   /\ h_toggles'[t] = h_toggles[t] + 1
                   /\ t \notin h_guards']_vars

\* both tasks have toggled; one holds the guard and is about to toggle
\* while the other waits for the lock
C19_Witness ==
    /\ LED
    /\ h_pc["toggle_a"] = "toggle"
    /\ h_pc["toggle_b"] = "lock"
    /\ h_guards = {"toggle_a"}
    /\ h_toggles["toggle_a"] >= 1
    /\ h_toggles["toggle_b"] >= 1

(***************************************************************************)
(* Claims about the counts of the variable-period program, checked under   *)
(* Spec.                                                                   *)
(***************************************************************************)
\* C20: the counts of the pipeline are ordered in every state: toggles are
\* at most the Periods written to DURATION_SIGNAL, these are the values
\* main has taken from CHANNEL and at most the values written to CHANNEL,
\* and these are the completed analog reads
C20_CountsOrdered ==
    /\ nToggles <= durWrites
    /\ durWrites = nMapped
    /\ nMapped <= Len(samples)
    /\ SignalPending(CHANNEL) => CHANNEL[1].seq = Len(samples)
    /\ value.seq <= Len(samples)
    /\ led_duration.seq <= durWrites
    /\ (Len(samples) = 0 => nToggles = 0)

\* every count differs from the next: four reads, three Periods, two toggles
C20_Witness ==
    /\ Len(samples) = 4
    /\ durWrites = 3
    /\ nToggles = 2
    /\ tl_pc = "wait"
====
